---------------------------- MODULE Spec2Model ----------------------------
(***************************************************************************)
(* Model of openpid-docgen (src/src/lib.rs).                               *)
(*                                                                         *)
(*  - generate_packet_diagram: the proportional diagram layout, modelled   *)
(*    both as an operator and as a step machine over its locals            *)
(*    (specification SpecDiagram).                                         *)
(*  - render_diagram, Book::document_payload and document: one run of the  *)
(*    documentation generator over an OpenPID description (specification   *)
(*    Spec).                                                               *)
(*                                                                         *)
(* Strings built by format!/formatdoc! are modelled by their variable      *)
(* parts: a tuple of the interpolated values, the fixed template text      *)
(* being the tuple's shape.  The empty string is the empty tuple.          *)
(* Option<T> is a sequence of length 0 (None) or 1 (Some).                 *)
(*                                                                         *)
(* Bit widths are u32 in the source.  The widths drawn here keep every sum *)
(* and product far below 2^31, so no u32 addition or multiplication wraps  *)
(* (release build) or panics (debug build) inside the modelled range.      *)
(***************************************************************************)
EXTENDS Integers, Sequences, FiniteSets, TLC

(* ------------------------------ bounds -------------------------------- *)

\* longest entry sequence handed to generate_packet_diagram
MaxLen == 4

(* -------------------------- program constants ------------------------- *)

\* the fixed visual budget of `let scale = 2000/total_bit_width`
BUDGET == 2000

\* the nominal width of an entry without a size: `None => 16*scale`
NominalWidth == 16

(* ------------------------------ Option -------------------------------- *)

None == << >>

Some(x) == << x >>

IsSome(o) == o # None

Unwrap(o) == o[1]

\* "".to_owned()
EmptyString == << >>

(* --------------------- generate_packet_diagram ------------------------ *)

\* the bit widths an entry of the bounded inputs may carry
Widths == {0, 8, 16, 2001}

\* entry labels, by position
Labels == << "A", "B", "C", "D", "E", "F", "G", "H" >>

LabelAt(i) == Labels[((i - 1) % Len(Labels)) + 1]

\* the sequences of Option<u32> of length n
RECURSIVE SizeSeqs(_)
SizeSeqs(n) ==
    IF n = 0 THEN { << >> }
    ELSE LET shorter == SizeSeqs(n - 1)
         IN  shorter \cup
             { Append(s, o) : s \in { t \in shorter : Len(t) = n - 1 },
                              o \in { None } \cup { Some(w) : w \in Widths } }

\* Vec<(String, Option<u32>)> with positional labels
WithLabels(sizes) == [ i \in 1..Len(sizes) |-> << LabelAt(i), sizes[i] >> ]

\* the closure of the fold: |bits, content| if let Some(content) = content.1
\*                                          { bits + content } else { 0 }
FoldStep(bits, content) ==
    IF IsSome(content[2]) THEN bits + Unwrap(content[2]) ELSE 0

\* contents.iter().fold(init, closure), left to right
RECURSIVE Fold(_, _)
Fold(bits, cs) ==
    IF cs = << >> THEN bits ELSE Fold(FoldStep(bits, Head(cs)), Tail(cs))

\* let total_bit_width = contents.iter().fold(0, ...)
TotalBitWidth(cs) == Fold(0, cs)

\* let scale = 2000/total_bit_width  (u32 division, total_bit_width # 0)
Scale(total) == BUDGET \div total

\* the size caption: format!("{} bits", size) or format!("Variable")
sizestr(size) ==
    IF IsSome(size) THEN << Unwrap(size), "bits" >> ELSE << "Variable" >>

\* scaledsize = match size { Some(size) => size*scale, None => 16*scale }
scaledsize(size, sc) ==
    IF IsSome(size) THEN Unwrap(size) * sc ELSE NominalWidth * sc

\* one block pushed onto stuffing: "{idx}: {sizestr} {idx}: { explanation:
\* |md {name} | ... width:{scaledsize} ... }"
Block(i, content, sc) ==
    [ idx     |-> i,
      caption |-> sizestr(content[2]),
      name    |-> content[1],
      width   |-> scaledsize(content[2], sc) ]

\* the final formatdoc!: the fixed preamble, then the container {name} with
\* grid-rows: 1, grid-gap: 0 and {stuffing}
Wrap(nm, stuff) == << nm, stuff >>

\* generate_packet_diagram as a function of its arguments
generate_packet_diagram(nm, cs) ==
    LET total == TotalBitWidth(cs)
    IN  IF total = 0 THEN EmptyString
        ELSE Wrap(nm, [ i \in 1..Len(cs) |-> Block(i - 1, cs[i], Scale(total)) ])

\* the blocks of a diagram description (none in the empty string)
BlocksOf(d) == IF d = EmptyString THEN << >> ELSE d[2]

VARIABLES
    name,             \* generate_packet_diagram: argument name
    contents,         \* generate_packet_diagram: argument contents
    gpc,              \* generate_packet_diagram: position in the body
    total_bit_width,  \* local
    scale,            \* local
    idx,              \* local: the enumerate() index of the next entry
    stuffing,         \* local: the blocks pushed so far
    ret,              \* the returned String
    pid,              \* document: the OpenPID description (payloads.tx, .rx)
    pc,               \* document: position in the body
    txi,              \* document: tx payloads iterated so far
    rxi,              \* document: rx payloads iterated so far
    tx_payloads,      \* document: local String, the tx fragments pushed
    tx_payloads_links,\* document: local String, the tx links pushed
    rx_payloads,      \* document: local String, the rx fragments pushed
    rx_payloads_links,\* document: local String, the rx links pushed
    render_calls,     \* the calls of render_diagram so far, in order
    files,            \* the files written by std::fs::write, in order
    mdbook,           \* the site builder: "none", "initialised", "built"
    result,           \* document: "running", "Ok" or "Err"
    err               \* the failure behind an "Err" result, else "none"

gvars == << name, contents, gpc, total_bit_width, scale, idx, stuffing, ret >>

dvars == << pid, pc, txi, rxi, tx_payloads, tx_payloads_links, rx_payloads,
            rx_payloads_links, render_calls, files, mdbook, result, err >>

vars == << gvars, dvars >>

\* no run of document is in progress
DIdle ==
    /\ pid = [ tx |-> << >>, rx |-> << >> ]
    /\ pc = "idle"
    /\ txi = 0
    /\ rxi = 0
    /\ tx_payloads = << >>
    /\ tx_payloads_links = << >>
    /\ rx_payloads = << >>
    /\ rx_payloads_links = << >>
    /\ render_calls = << >>
    /\ files = << >>
    /\ mdbook = "none"
    /\ result = "running"
    /\ err = "none"

\* a call of generate_packet_diagram on any bounded input
GInit ==
    /\ name = "Packet Format"
    /\ contents \in { WithLabels(s) : s \in SizeSeqs(MaxLen) }
    /\ gpc = "fold"
    /\ total_bit_width = 0
    /\ scale = 0
    /\ idx = 0
    /\ stuffing = << >>
    /\ ret = EmptyString
    /\ DIdle

\* (mutant) line 19 without the early return of lines 20-22
ComputeTotal_NoEarlyReturn ==
    /\ gpc = "fold"
    /\ total_bit_width' = TotalBitWidth(contents)
    /\ gpc' = "scale"
    /\ UNCHANGED << name, contents, scale, idx, stuffing, ret >>
    /\ UNCHANGED dvars

\* line 19, and the early return of lines 20-22
ComputeTotal ==
    /\ gpc = "fold"
    /\ total_bit_width' = TotalBitWidth(contents)
    /\ IF total_bit_width' = 0
         THEN gpc' = "returned" /\ ret' = EmptyString
         ELSE gpc' = "scale" /\ ret' = ret
    /\ UNCHANGED << name, contents, scale, idx, stuffing >>
    /\ UNCHANGED dvars

\* line 24; a u32 division by zero panics
ComputeScale ==
    /\ gpc = "scale"
    /\ IF total_bit_width = 0
         THEN gpc' = "panicked" /\ scale' = scale
         ELSE gpc' = "loop" /\ scale' = Scale(total_bit_width)
    /\ UNCHANGED << name, contents, total_bit_width, idx, stuffing, ret >>
    /\ UNCHANGED dvars

\* one iteration of the loop of lines 26-45
EmitBlock ==
    /\ gpc = "loop"
    /\ idx < Len(contents)
    /\ stuffing' = Append(stuffing, Block(idx, contents[idx + 1], scale))
    /\ idx' = idx + 1
    /\ UNCHANGED << name, contents, gpc, total_bit_width, scale, ret >>
    /\ UNCHANGED dvars

\* lines 47-63
ReturnDiagram ==
    /\ gpc = "loop"
    /\ idx = Len(contents)
    /\ ret' = Wrap(name, stuffing)
    /\ gpc' = "returned"
    /\ UNCHANGED << name, contents, total_bit_width, scale, idx, stuffing >>
    /\ UNCHANGED dvars

GNext == ComputeTotal \/ ComputeScale \/ EmitBlock \/ ReturnDiagram

SpecDiagram == GInit /\ [][GNext]_vars

\* the step machine and the operator agree
StepsAgree ==
    gpc = "returned" => ret = generate_packet_diagram(name, contents)

(* --------------------------- the data model --------------------------- *)

\* PacketSegment::Sized { name, bits, datatype, description }
Sized(nm, bits, datatype, description) ==
    [ kind |-> "Sized", name |-> nm, bits |-> bits, datatype |-> datatype,
      description |-> description ]

\* PacketSegment::Unsized { name, termination, datatype, description }
Unsized(nm, termination, datatype, description) ==
    [ kind |-> "Unsized", name |-> nm, termination |-> termination,
      datatype |-> datatype, description |-> description ]

\* PacketSegment::Struct { name, struct_name }
Struct(nm, struct_name) ==
    [ kind |-> "Struct", name |-> nm, struct_name |-> struct_name ]

\* segment.get_name(): the segment's own name field
get_name(segment) == segment.name

\* Payload { description, metadata, segments }
Payload(description, metadata, segments) ==
    [ description |-> description, metadata |-> metadata,
      segments |-> segments ]

\* the payloads a description may hold
PingPayload ==
    Payload("ping", "meta", << Sized("opcode", 8, "u8", None),
                               Sized("seq", 16, "u16", Some("sequence number")) >>)

FramePayload ==
    Payload("frame", "meta", << Sized("len", 8, "u8", None),
                                Unsized("body", None, "bytes", Some("the body")),
                                Struct("crc", "crc") >>)

ReplyPayload ==
    Payload("reply", "meta", << Struct("hdr", "Header"),
                                Unsized("text", Some("null"), "str", None),
                                Sized("value", 16, "u16", None) >>)

PayloadPool == { PingPayload, FramePayload, ReplyPayload }

\* the payload names a description may use
PayloadNames == { "Ping", "Data" }

\* most payloads of one direction
MaxPayloads == 2

\* the iteration orders of a map from payload name to Payload with at most n
\* entries: sequences of (name, payload) with distinct names
RECURSIVE PayloadMaps(_)
PayloadMaps(n) ==
    IF n = 0 THEN { << >> }
    ELSE LET shorter == PayloadMaps(n - 1)
         IN  shorter \cup
             { Append(m, << nm, p >>) :
                 m \in { t \in shorter : Len(t) = n - 1 },
                 nm \in PayloadNames, p \in PayloadPool }

DistinctNames(m) ==
    \A i, j \in 1..Len(m) : i # j => m[i][1] # m[j][1]

(* -------------------------- document_payload -------------------------- *)

\* description.as_ref().map_or("", |i| i)
map_or(default, o) == IF IsSome(o) THEN Unwrap(o) ELSE default

\* the text of one segment, lines 96-117: "### {name}\n{desc}"
SegmentDoc(segment) ==
    << get_name(segment),
       CASE segment.kind = "Sized" ->
              << segment.bits, "bit-wide", segment.datatype,
                 map_or("", segment.description) >>
         [] segment.kind = "Unsized" ->
              << segment.datatype, "with",
                 map_or("no additional termination", segment.termination),
                 map_or("", segment.description) >>
         [] segment.kind = "Struct" ->
              << "See struct", segment.struct_name, segment.struct_name >> >>

\* the (label, width) pair of one segment, lines 121-136
SegmentEntry(segment) ==
    CASE segment.kind = "Sized" ->
           << << segment.name, segment.datatype >>, Some(segment.bits) >>
      [] segment.kind = "Unsized" ->
           << << segment.name, segment.datatype >>, None >>
      [] segment.kind = "Struct" ->
           IF segment.name = segment.struct_name
             THEN << << segment.name >>, None >>
             ELSE << << segment.name, segment.struct_name >>, None >>

\* payload.segments.iter().map(...).collect()
DiagramContents(payload) ==
    [ i \in 1..Len(payload.segments) |-> SegmentEntry(payload.segments[i]) ]

\* (mutant) the path component does not depend on the direction
diagram_path_relative_AlwaysTx(direction, payload_name) ==
    << "tx", payload_name, "png" >>

\* format!("{payload_direction_path_component}/{payload_name}.png")
diagram_path_relative(direction, payload_name) ==
    << (IF direction = "Tx" THEN "tx" ELSE "rx"), payload_name, "png" >>

\* self.src_path.join("payloads").join(diagram_path_relative)
RenderPath(direction, payload_name) ==
    << "src", "payloads" >> \o diagram_path_relative(direction, payload_name)

\* the fragment returned by document_payload, lines 149-162
Fragment(payload, payload_name, direction) ==
    [ title       |-> payload_name,
      description |-> payload.description,
      image       |-> diagram_path_relative(direction, payload_name),
      segments    |-> [ i \in 1..Len(payload.segments) |->
                          SegmentDoc(payload.segments[i]) ],
      metadatas   |-> payload.metadata ]

(* ---------------------------- render_diagram -------------------------- *)

\* what a call of render_diagram can meet: spawn() fails; write_all() fails;
\* wait() fails; the process exits with status 0; with a non-zero status
RenderOutcomes ==
    { "spawn_err", "write_err", "wait_err", "exit_0", "exit_1" }

\* (mutant) a failure of wait() is swallowed
render_diagram_IgnoresWait(outcome) ==
    IF outcome \in { "spawn_err", "write_err" } THEN "Err" ELSE "Ok"

\* the Result of render_diagram: each `?` returns the io::Error; the exit
\* status is printed and Ok(()) is returned
render_diagram(outcome) ==
    IF outcome \in { "spawn_err", "write_err", "wait_err" } THEN "Err" ELSE "Ok"

\* one call of render_diagram(diagram, path): the output path argument of
\* d2, the description for its stdin, the exit status wait() returned (None
\* when the call did not get that far) and what the call met
RenderCall(diagram, path, outcome) ==
    [ path   |-> path,
      stdin  |-> diagram,
      status |-> CASE outcome = "exit_0" -> Some(0)
                   [] outcome = "exit_1" -> Some(1)
                   [] OTHER -> None,
      io     |-> outcome ]

(* ------------------------------ document ------------------------------ *)

\* a run of document on any bounded description
Init ==
    /\ name = ""
    /\ contents = << >>
    /\ gpc = "idle"
    /\ total_bit_width = 0
    /\ scale = 0
    /\ idx = 0
    /\ stuffing = << >>
    /\ ret = EmptyString
    /\ pid \in { [ tx |-> t, rx |-> r ] :
                   t \in { m \in PayloadMaps(MaxPayloads) : DistinctNames(m) },
                   r \in { m \in PayloadMaps(MaxPayloads) : DistinctNames(m) } }
    /\ pc = "create_dir"
    /\ txi = 0
    /\ rxi = 0
    /\ tx_payloads = << >>
    /\ tx_payloads_links = << >>
    /\ rx_payloads = << >>
    /\ rx_payloads_links = << >>
    /\ render_calls = << >>
    /\ files = << >>
    /\ mdbook = "none"
    /\ result = "running"
    /\ err = "none"

\* `?` on an Err: document returns it
Fail(kind) ==
    /\ pc' = "failed"
    /\ result' = "Err"
    /\ err' = kind

\* lines 169-180: create_dir_all(&path)?; the four directories under src are
\* created with their results discarded
CreateDirs ==
    /\ pc = "create_dir"
    /\ \E ok \in BOOLEAN :
          IF ok THEN pc' = "tx_loop" /\ UNCHANGED << result, err >>
                ELSE Fail("create_dir")
    /\ UNCHANGED << pid, txi, rxi, tx_payloads, tx_payloads_links, rx_payloads,
                    rx_payloads_links, render_calls, files, mdbook >>
    /\ UNCHANGED gvars

\* one iteration of the loop of lines 184-187: the link is pushed, then
\* document_payload runs (lines 93-163) and its fragment is pushed or its
\* error returned
TxPayload ==
    /\ pc = "tx_loop"
    /\ txi < Len(pid.tx)
    /\ LET payload_name == pid.tx[txi + 1][1]
           payload == pid.tx[txi + 1][2]
           d2 == generate_packet_diagram(payload_name, DiagramContents(payload))
           path == RenderPath("Tx", payload_name)
       IN  \E outcome \in RenderOutcomes :
             /\ tx_payloads_links' = Append(tx_payloads_links, payload_name)
             /\ render_calls' = Append(render_calls, RenderCall(d2, path, outcome))
             /\ IF render_diagram(outcome) = "Ok"
                  THEN /\ tx_payloads' = Append(tx_payloads,
                                                Fragment(payload, payload_name, "Tx"))
                       /\ txi' = txi + 1
                       /\ UNCHANGED << pc, result, err >>
                  ELSE /\ Fail(outcome)
                       /\ UNCHANGED << tx_payloads, txi >>
    /\ UNCHANGED << pid, rxi, rx_payloads, rx_payloads_links, files, mdbook >>
    /\ UNCHANGED gvars

\* the tx loop ends, lines 189-190
TxDone ==
    /\ pc = "tx_loop"
    /\ txi = Len(pid.tx)
    /\ pc' = "rx_loop"
    /\ UNCHANGED << pid, txi, rxi, tx_payloads, tx_payloads_links, rx_payloads,
                    rx_payloads_links, render_calls, files, mdbook, result, err >>
    /\ UNCHANGED gvars

\* one iteration of the loop of lines 191-194
RxPayload ==
    /\ pc = "rx_loop"
    /\ rxi < Len(pid.rx)
    /\ LET payload_name == pid.rx[rxi + 1][1]
           payload == pid.rx[rxi + 1][2]
           d2 == generate_packet_diagram(payload_name, DiagramContents(payload))
           path == RenderPath("Rx", payload_name)
       IN  \E outcome \in RenderOutcomes :
             /\ rx_payloads_links' = Append(rx_payloads_links, payload_name)
             /\ render_calls' = Append(render_calls, RenderCall(d2, path, outcome))
             /\ IF render_diagram(outcome) = "Ok"
                  THEN /\ rx_payloads' = Append(rx_payloads,
                                                Fragment(payload, payload_name, "Rx"))
                       /\ rxi' = rxi + 1
                       /\ UNCHANGED << pc, result, err >>
                  ELSE /\ Fail(outcome)
                       /\ UNCHANGED << rx_payloads, rxi >>
    /\ UNCHANGED << pid, txi, tx_payloads, tx_payloads_links, files, mdbook >>
    /\ UNCHANGED gvars

\* the rx loop ends
RxDone ==
    /\ pc = "rx_loop"
    /\ rxi = Len(pid.rx)
    /\ pc' = "summary"
    /\ UNCHANGED << pid, txi, rxi, tx_payloads, tx_payloads_links, rx_payloads,
                    rx_payloads_links, render_calls, files, mdbook, result, err >>
    /\ UNCHANGED gvars

\* std::fs::write(book.src_path.join(file), content)? at position `at`
WriteFile(at, file, content, next) ==
    /\ pc = at
    /\ \E ok \in BOOLEAN :
          IF ok THEN /\ files' = Append(files, << file, content >>)
                     /\ pc' = next
                     /\ UNCHANGED << result, err >>
                ELSE /\ Fail("fs_write")
                     /\ UNCHANGED files
    /\ UNCHANGED << pid, txi, rxi, tx_payloads, tx_payloads_links, rx_payloads,
                    rx_payloads_links, render_calls, mdbook >>
    /\ UNCHANGED gvars

\* lines 197-217: the summary is a fixed text
WriteSummary == WriteFile("summary", "SUMMARY.md", << >>, "about")

\* lines 221-231
WriteAbout == WriteFile("about", "about.md", << >>, "tx_index")

\* lines 233-242
WriteTxIndex == WriteFile("tx_index", "payloads/tx.md", tx_payloads, "rx_index")

\* lines 244-252
WriteRxIndex == WriteFile("rx_index", "payloads/rx.md", rx_payloads, "mdbook_init")

\* lines 255-263: MDBook::init(&path).with_config(cfg).build()?
MdbookInit ==
    /\ pc = "mdbook_init"
    /\ \E ok \in BOOLEAN :
          IF ok THEN /\ mdbook' = "initialised"
                     /\ pc' = "mdbook_build"
                     /\ UNCHANGED << result, err >>
                ELSE /\ mdbook' = "init_failed"
                     /\ Fail("mdbook")
    /\ UNCHANGED << pid, txi, rxi, tx_payloads, tx_payloads_links, rx_payloads,
                    rx_payloads_links, render_calls, files >>
    /\ UNCHANGED gvars

\* lines 264-268: mdbook.build()?; Ok(())
MdbookBuild ==
    /\ pc = "mdbook_build"
    /\ \E ok \in BOOLEAN :
          IF ok THEN /\ mdbook' = "built"
                     /\ pc' = "done"
                     /\ result' = "Ok"
                     /\ UNCHANGED err
                ELSE /\ mdbook' = "build_failed"
                     /\ Fail("mdbook")
    /\ UNCHANGED << pid, txi, rxi, tx_payloads, tx_payloads_links, rx_payloads,
                    rx_payloads_links, render_calls, files >>
    /\ UNCHANGED gvars

Next ==
    \/ CreateDirs
    \/ TxPayload
    \/ TxDone
    \/ RxPayload
    \/ RxDone
    \/ WriteSummary
    \/ WriteAbout
    \/ WriteTxIndex
    \/ WriteRxIndex
    \/ MdbookInit
    \/ MdbookBuild

Spec == Init /\ [][Next]_vars

(* ------------------- claims on generate_packet_diagram ---------------- *)

\* the sum of the widths of the entries that have one
RECURSIVE SumWidths(_)
SumWidths(cs) ==
    IF cs = << >> THEN 0
    ELSE (IF IsSome(Head(cs)[2]) THEN Unwrap(Head(cs)[2]) ELSE 0)
         + SumWidths(Tail(cs))

NoWidth(cs) == \A i \in 1..Len(cs) : ~IsSome(cs[i][2])

AllWidthsPositive(cs) ==
    \A i \in 1..Len(cs) : IsSome(cs[i][2]) => Unwrap(cs[i][2]) > 0

\* the sum of the emitted widths of the blocks whose entry has a width
RECURSIVE SumSizedEmitted(_, _)
SumSizedEmitted(cs, blocks) ==
    IF cs = << >> \/ blocks = << >> THEN 0
    ELSE (IF IsSome(Head(cs)[2]) THEN Head(blocks).width ELSE 0)
         + SumSizedEmitted(Tail(cs), Tail(blocks))

\* the example of the specification: [(A,8),(B,8),(C,None),(D,16)]
ExampleContents ==
    WithLabels(<< Some(8), Some(8), None, Some(16) >>)

\* C1: once the fold has run, the total used for scaling is the sum of the
\* widths of all entries that have a width, wherever the entries without a
\* width sit in the sequence.
C1_TotalIsSumOfWidths ==
    gpc # "fold" => total_bit_width = SumWidths(contents)

\* C2: when the sum of the present widths is positive, the call returns a
\* diagram whose scale is floor(2000 / sum), whose sized blocks have width
\* w * scale and whose unsized blocks have width 16 * scale; on the example
\* the widths are 496, 496, 992, 992.
C2_WidthsScaledBySum ==
    (gpc = "returned" /\ SumWidths(contents) > 0) =>
        LET sc == BUDGET \div SumWidths(contents)
            bs == BlocksOf(ret)
        IN  /\ scale = sc
            /\ Len(bs) = Len(contents)
            /\ \A i \in 1..Len(contents) :
                  bs[i].width = IF IsSome(contents[i][2])
                                  THEN Unwrap(contents[i][2]) * sc
                                  ELSE 16 * sc
            /\ contents = ExampleContents =>
                  /\ total_bit_width = 32
                  /\ scale = 62
                  /\ [ i \in 1..4 |-> bs[i].width ] = << 496, 496, 992, 992 >>

\* C3: on an input in which no entry has a width (the empty sequence
\* included) the call never panics, and what it returns is the empty string.
C3_NoWidthGivesEmptyString ==
    NoWidth(contents) =>
        /\ gpc \in { "fold", "returned" }
        /\ gpc = "returned" => ret = EmptyString

C3_Witness ==
    /\ gpc = "returned"
    /\ Len(contents) >= 2
    /\ NoWidth(contents)
    /\ ret = EmptyString

\* C9: whenever a non-empty diagram is returned, the emitted widths of the
\* entries that have a bit width sum to at most the budget of 2000.
C9_SizedWidthsWithinBudget ==
    (gpc = "returned" /\ ret # EmptyString) =>
        SumSizedEmitted(contents, BlocksOf(ret)) <= BUDGET

AllPayloads == pid.tx \o pid.rx

HasPositiveSized(payload) ==
    \E i \in 1..Len(payload.segments) :
        /\ payload.segments[i].kind = "Sized"
        /\ payload.segments[i].bits > 0

\* the size caption a segment is to be drawn with
SegmentCaption(segment) ==
    IF segment.kind = "Sized" THEN << segment.bits, "bits" >>
                              ELSE << "Variable" >>

RenderErrors == { "spawn_err", "write_err", "wait_err" }

\* C4: the diagram handed to the renderer for a payload with at least one
\* Sized segment of positive width has exactly one block per segment, and
\* its Nth block is keyed N-1 and carries the Nth segment's label and size
\* caption.  (The k-th call of render_diagram belongs to the k-th payload.)
C4_OneBlockPerSegment ==
    \A k \in 1..Len(render_calls) :
        LET segments == AllPayloads[k][2].segments
            blocks == BlocksOf(render_calls[k].stdin)
        IN  HasPositiveSized(AllPayloads[k][2]) =>
              /\ Len(blocks) = Len(segments)
              /\ \A n \in 1..Len(segments) :
                    /\ blocks[n].idx = n - 1
                    /\ blocks[n].name = SegmentEntry(segments[n])[1]
                    /\ blocks[n].caption = SegmentCaption(segments[n])

\* C5: once a renderer process has exited with a non-zero status,
\* render_diagram has returned an error and the run of document has ended in
\* failure.
C5_NonZeroExitFailsRun ==
    (\E k \in 1..Len(render_calls) :
        IsSome(render_calls[k].status) /\ Unwrap(render_calls[k].status) # 0)
    => (pc = "failed" /\ result = "Err")

\* some call of render_diagram met an I/O error
RenderIoError ==
    \E k \in 1..Len(render_calls) : render_calls[k].io \in RenderErrors

\* C6: once a call of render_diagram has met an I/O error (spawn, stdin
\* write or wait), document has returned an error with none of SUMMARY.md,
\* about.md, payloads/tx.md, payloads/rx.md written and the site builder not
\* invoked, and from then on no payload is rendered, no file is written and
\* the builder stays untouched.
C6_RenderErrorAbortsRun ==
    /\ [](RenderIoError =>
            /\ pc = "failed"
            /\ result = "Err"
            /\ files = << >>
            /\ mdbook = "none")
    /\ [][RenderIoError =>
            UNCHANGED << render_calls, files, mdbook, result >>]_vars

\* a render error after an earlier payload was rendered and with payloads
\* still to come
C6_Witness ==
    /\ RenderIoError
    /\ result = "Err"
    /\ Len(render_calls) >= 2
    /\ Len(render_calls) < Len(AllPayloads)

ExpectedPaths ==
    [ k \in 1..Len(AllPayloads) |->
        << "src", "payloads",
           (IF k <= Len(pid.tx) THEN "tx" ELSE "rx"),
           AllPayloads[k][1], "png" >> ]

\* C7: in a run that ends Ok, the renderer has been invoked exactly once per
\* tx payload with output path payloads/tx/<name>.png and exactly once per rx
\* payload with payloads/rx/<name>.png, and no two invocations share a path.
C7_OneRenderPerPayload ==
    result = "Ok" =>
        /\ [ k \in 1..Len(render_calls) |-> render_calls[k].path ] = ExpectedPaths
        /\ \A k \in 1..Len(render_calls) : render_calls[k].io # "spawn_err"
        /\ \A j, k \in 1..Len(render_calls) :
              j # k => render_calls[j].path # render_calls[k].path

\* a successful run in which one name is a tx and an rx payload
C7_Witness ==
    /\ result = "Ok"
    /\ Len(pid.tx) = 2
    /\ \E i \in 1..Len(pid.tx), j \in 1..Len(pid.rx) :
          pid.tx[i][1] = pid.rx[j][1]

=============================================================================
